---------------------------- MODULE Spec2Model ----------------------------
(***************************************************************************)
(* Model of grader.py (Honest Grader AI): the strictness switch, the       *)
(* fence-tolerant JSON extraction, the field completion of _postprocess    *)
(* and the control flow of grade_work.                                     *)
(*                                                                         *)
(* Text is a sequence of chunks.  A chunk is either one significant        *)
(* character (backtick, space, line feed, U+2028, a JSON punctuation mark, *)
(* the double quote) or a maximal run of letters and digits, so that       *)
(* str.strip, str.startswith, str.splitlines, str.lower and json.loads     *)
(* all act on whole chunks.  Numbers are counted in tenths (15 is 150,     *)
(* 96.9 is 969); a quotient is kept as an exact fraction.                  *)
(***************************************************************************)
EXTENDS Integers, Sequences, FiniteSets, TLC

(***************************************************************************)
(* Bounds of the explored inputs.                                          *)
(***************************************************************************)
MaxItems == 2      \* entries of rubric_breakdown
MaxPad == 1        \* whitespace chunks around a text

(***************************************************************************)
(* Characters.                                                             *)
(***************************************************************************)
BT == "BACKTICK"   \* the backtick character
SP == " "
NL == "\n"
LS == "u2028"      \* U+2028 LINE SEPARATOR, one character
Q == "\""

\* str.strip() without argument removes Unicode whitespace
PyWhitespace == {SP, NL, LS}
\* str.splitlines() boundaries
LineBreaks == {NL, LS}
\* whitespace json.loads skips between tokens
JsonWhitespace == {SP, NL}
\* characters below U+0020, which json.loads rejects inside a string
ControlChars == {NL}

\* str.lower() on a run of letters
LowerWord(w) ==
    CASE w = "JSON" -> "json"
      [] w = "Json" -> "json"
      [] w = "JavaScript" -> "javascript"
      [] w = "HARD" -> "hard"
      [] w = "Hard" -> "hard"
      [] w = "EASY" -> "easy"
      [] w = "Easy" -> "easy"
      [] w = "MEDIUM" -> "medium"
      [] w = "Harder" -> "harder"
      [] OTHER -> w

Lower(s) == [i \in 1..Len(s) |-> LowerWord(s[i])]

RECURSIVE LStripSet(_, _)
LStripSet(s, cs) ==
    IF s # <<>> /\ Head(s) \in cs THEN LStripSet(Tail(s), cs) ELSE s

RECURSIVE RStripSet(_, _)
RStripSet(s, cs) ==
    IF s # <<>> /\ s[Len(s)] \in cs
    THEN RStripSet(SubSeq(s, 1, Len(s) - 1), cs)
    ELSE s

\* text.strip()
Strip(s) == RStripSet(LStripSet(s, PyWhitespace), PyWhitespace)

\* cleaned.strip(BT)
StripTicks(s) == RStripSet(LStripSet(s, {BT}), {BT})

\* cleaned.startswith(BT BT BT)
StartsWithFence(s) == Len(s) >= 3 /\ s[1] = BT /\ s[2] = BT /\ s[3] = BT

\* cleaned.splitlines(): no empty last line after a final line break
RECURSIVE SplitLinesFrom(_, _)
SplitLinesFrom(s, cur) ==
    IF s = <<>>
    THEN IF cur = <<>> THEN <<>> ELSE <<cur>>
    ELSE IF Head(s) \in LineBreaks
         THEN <<cur>> \o SplitLinesFrom(Tail(s), <<>>)
         ELSE SplitLinesFrom(Tail(s), Append(cur, Head(s)))

SplitLines(s) == SplitLinesFrom(s, <<>>)

\* "\n".join(lines)
RECURSIVE JoinLines(_)
JoinLines(lines) ==
    IF lines = <<>> THEN <<>>
    ELSE IF Len(lines) = 1 THEN lines[1]
    ELSE lines[1] \o <<NL>> \o JoinLines(Tail(lines))

(***************************************************************************)
(* Python values produced by json.loads.                                   *)
(***************************************************************************)
None == [t |-> "none"]
Num(n) == [t |-> "num", n |-> n]              \* n counts tenths
Bool(b) == [t |-> "bool", b |-> b]
StrV(s) == [t |-> "str", s |-> s]             \* s is the text of the string
ListV(items) == [t |-> "list", items |-> items]
DictV(f) == [t |-> "dict", f |-> f]           \* f maps key texts to values

EmptyDict == DictV(<<>>)

\* d[k] = v
DictSet(d, k, v) ==
    DictV([x \in (DOMAIN d.f) \cup {k} |-> IF x = k THEN v ELSE d.f[x]])

\* d.get(k, default)
DictGet(d, k, default) == IF k \in DOMAIN d.f THEN d.f[k] ELSE default

(***************************************************************************)
(* Number literals.  A literal is one chunk; its value is in tenths.       *)
(***************************************************************************)
NumLiteral(n) ==
    IF n % 10 = 0 THEN ToString(n \div 10)
    ELSE ToString(n \div 10) \o "." \o ToString(n % 10)

\* the numbers (in tenths) that occur in the explored texts
Numbers ==
    {-50, 0, 50, 80, 100, 150, 200, 230, 320, 330, 599, 600, 969, 970, 1000}

NumberOf == [c \in {NumLiteral(n) : n \in Numbers} |->
                CHOOSE n \in Numbers : NumLiteral(n) = c]

IsNumLiteral(c) == c \in DOMAIN NumberOf

(***************************************************************************)
(* json.loads on a text: a recursive descent over the chunks.              *)
(***************************************************************************)
ParseFail == [ok |-> FALSE, v |-> None, i |-> 0]
ParseOk(v, i) == [ok |-> TRUE, v |-> v, i |-> i]

RECURSIVE SkipWs(_, _)
SkipWs(s, i) ==
    IF i <= Len(s) /\ s[i] \in JsonWhitespace THEN SkipWs(s, i + 1) ELSE i

\* the body of a string literal from position i, after the opening quote
RECURSIVE ScanString(_, _, _)
ScanString(s, i, acc) ==
    IF i > Len(s) THEN ParseFail                      \* unterminated string
    ELSE IF s[i] = Q THEN ParseOk(StrV(acc), i + 1)
    ELSE IF s[i] \in ControlChars THEN ParseFail      \* invalid control character
    ELSE ScanString(s, i + 1, Append(acc, s[i]))

RECURSIVE ParseValue(_, _)
RECURSIVE ParseMembers(_, _, _)
RECURSIVE ParseElements(_, _, _)

\* members of an object from position i, which holds the quote of a key
ParseMembers(s, i, d) ==
    IF i > Len(s) \/ s[i] # Q THEN ParseFail
    ELSE LET key == ScanString(s, i + 1, <<>>) IN
         IF ~key.ok THEN ParseFail
         ELSE LET c == SkipWs(s, key.i) IN
              IF c > Len(s) \/ s[c] # ":" THEN ParseFail
              ELSE LET val == ParseValue(s, SkipWs(s, c + 1)) IN
                   IF ~val.ok THEN ParseFail
                   ELSE LET e == SkipWs(s, val.i)
                            d2 == DictSet(d, key.v.s, val.v)
                        IN IF e > Len(s) THEN ParseFail
                           ELSE IF s[e] = "}" THEN ParseOk(d2, e + 1)
                           ELSE IF s[e] = "," THEN ParseMembers(s, SkipWs(s, e + 1), d2)
                           ELSE ParseFail

\* elements of an array from position i, which holds the first chunk of a value
ParseElements(s, i, items) ==
    LET val == ParseValue(s, i) IN
    IF ~val.ok THEN ParseFail
    ELSE LET e == SkipWs(s, val.i)
             items2 == Append(items, val.v)
         IN IF e > Len(s) THEN ParseFail
            ELSE IF s[e] = "]" THEN ParseOk(ListV(items2), e + 1)
            ELSE IF s[e] = "," THEN ParseElements(s, SkipWs(s, e + 1), items2)
            ELSE ParseFail

ParseValue(s, i) ==
    IF i > Len(s) THEN ParseFail
    ELSE IF s[i] = Q THEN ScanString(s, i + 1, <<>>)
    ELSE IF s[i] = "{" THEN
         LET j == SkipWs(s, i + 1) IN
         IF j <= Len(s) /\ s[j] = "}" THEN ParseOk(EmptyDict, j + 1)
         ELSE ParseMembers(s, j, EmptyDict)
    ELSE IF s[i] = "[" THEN
         LET j == SkipWs(s, i + 1) IN
         IF j <= Len(s) /\ s[j] = "]" THEN ParseOk(ListV(<<>>), j + 1)
         ELSE ParseElements(s, j, <<>>)
    ELSE IF s[i] = "null" THEN ParseOk(None, i + 1)
    ELSE IF s[i] = "true" THEN ParseOk(Bool(TRUE), i + 1)
    ELSE IF s[i] = "false" THEN ParseOk(Bool(FALSE), i + 1)
    ELSE IF IsNumLiteral(s[i]) THEN ParseOk(Num(NumberOf[s[i]]), i + 1)
    ELSE ParseFail

\* json.loads(s): one value, whitespace around it, nothing after it
JsonLoads(s) ==
    LET val == ParseValue(s, SkipWs(s, 1)) IN
    IF val.ok /\ SkipWs(s, val.i) = Len(s) + 1 THEN val ELSE ParseFail

(***************************************************************************)
(* _safe_json_parse                                                        *)
(***************************************************************************)
\* the text handed to json.loads
Cleaned(text) ==
    LET c1 == Strip(text)
        c2 == IF StartsWithFence(c1)
              THEN LET t == StripTicks(c1)
                       lines == SplitLines(t)
                   IN IF lines # <<>>
                         /\ Strip(Lower(lines[1])) \in {<<"json">>, <<"javascript">>}
                      THEN JoinLines(Tail(lines))
                      ELSE t
              ELSE c1
    IN Strip(c2)

\* ok = FALSE stands for the exception json.loads raises
_safe_json_parse(text) == JsonLoads(Cleaned(text))

(***************************************************************************)
(* _postprocess                                                            *)
(***************************************************************************)
K_overall_score == <<"overall_score">>
K_overall_max == <<"overall_max">>
K_letter_grade == <<"letter_grade">>
K_percent == <<"percent">>
K_rubric_breakdown == <<"rubric_breakdown">>
K_score == <<"score">>
K_max_score == <<"max_score">>

\* float(v): ok = FALSE stands for the TypeError or ValueError it raises
ToFloat(v) ==
    CASE v.t = "num" -> [ok |-> TRUE, n |-> v.n]
      [] v.t = "bool" -> [ok |-> TRUE, n |-> IF v.b THEN 10 ELSE 0]
      [] v.t = "str" ->
            LET w == Strip(v.s) IN
            IF Len(w) = 1 /\ IsNumLiteral(w[1])
            THEN [ok |-> TRUE, n |-> NumberOf[w[1]]]
            ELSE [ok |-> FALSE, n |-> 0]
      [] OTHER -> [ok |-> FALSE, n |-> 0]

\* bool(v)
Truthy(v) ==
    CASE v.t = "none" -> FALSE
      [] v.t = "num" -> v.n # 0
      [] v.t = "bool" -> v.b
      [] v.t = "str" -> v.s # <<>>
      [] v.t = "list" -> v.items # <<>>
      [] v.t = "dict" -> DOMAIN v.f # {}

\* whether "for item in v" can start, and the items it visits
Iterable(v) == v.t \in {"list", "str", "dict"}

\* a dict yields its keys and a string its characters: strings either way
Items(v) ==
    CASE v.t = "list" -> v.items
      [] v.t = "str" -> [i \in 1..Len(v.s) |-> StrV(<<v.s[i]>>)]
      [] v.t = "dict" -> LET n == Cardinality(DOMAIN v.f) IN [i \in 1..n |-> StrV(<<>>)]

\* a slip: an entry without max_score counts 0 instead of 10
SumItemNoDefault(acc, item) ==
    IF item.t # "dict" THEN acc
    ELSE LET sc == ToFloat(DictGet(item, K_score, Num(0)))
             mx == ToFloat(DictGet(item, K_max_score, Num(0)))
         IN IF ~sc.ok THEN acc
            ELSE IF ~mx.ok
                 THEN [total |-> acc.total + sc.n, total_max |-> acc.total_max]
                 ELSE [total |-> acc.total + sc.n, total_max |-> acc.total_max + mx.n]

\* one pass of the loop body, lines 169-173: the two additions run in order
\* and the except clause ends the pass at the first conversion that raises
SumItem(acc, item) ==
    IF item.t # "dict" THEN acc
    ELSE LET sc == ToFloat(DictGet(item, K_score, Num(0)))
             mx == ToFloat(DictGet(item, K_max_score, Num(100)))
         IN IF ~sc.ok THEN acc
            ELSE IF ~mx.ok
                 THEN [total |-> acc.total + sc.n, total_max |-> acc.total_max]
                 ELSE [total |-> acc.total + sc.n, total_max |-> acc.total_max + mx.n]

RECURSIVE SumItems(_, _)
SumItems(acc, items) ==
    IF items = <<>> THEN acc ELSE SumItems(SumItem(acc, Head(items)), Tail(items))

\* a percentage as an exact fraction n/d, d > 0
Frac(n, d) == [n |-> n, d |-> d]
ZeroPct == Frac(0, 1)

\* lines 179-182
PctOf(overall, overall_max) ==
    LET mx == ToFloat(overall_max)
        sc == ToFloat(overall)
    IN IF ~mx.ok THEN ZeroPct
       ELSE IF mx.n > 0
            THEN IF sc.ok THEN Frac(100 * sc.n, mx.n) ELSE ZeroPct
            ELSE ZeroPct

\* pct >= k for a whole number k
AtLeast(pct, k) == pct.n >= k * pct.d

_default_letter_grade(pct) ==
    IF AtLeast(pct, 97) THEN "A+"
    ELSE IF AtLeast(pct, 93) THEN "A"
    ELSE IF AtLeast(pct, 90) THEN "A-"
    ELSE IF AtLeast(pct, 87) THEN "B+"
    ELSE IF AtLeast(pct, 83) THEN "B"
    ELSE IF AtLeast(pct, 80) THEN "B-"
    ELSE IF AtLeast(pct, 77) THEN "C+"
    ELSE IF AtLeast(pct, 73) THEN "C"
    ELSE IF AtLeast(pct, 70) THEN "C-"
    ELSE IF AtLeast(pct, 67) THEN "D+"
    ELSE IF AtLeast(pct, 63) THEN "D"
    ELSE IF AtLeast(pct, 60) THEN "D-"
    ELSE "F"

\* a slip: the percent is cut to one decimal place instead of rounded
Round1Truncated(pct) == (10 * pct.n) \div pct.d

\* round(pct, 1) in tenths: to the nearest tenth, a tie to the even one
Round1(pct) ==
    LET q == (10 * pct.n) \div pct.d
        r == (10 * pct.n) % pct.d
    IN IF 2 * r > pct.d THEN q + 1
       ELSE IF 2 * r = pct.d THEN (IF q % 2 = 0 THEN q ELSE q + 1)
       ELSE q

Raise(exc) == [ok |-> FALSE, exc |-> exc, v |-> None]
Return(v) == [ok |-> TRUE, exc |-> "", v |-> v]

\* a slip: the letter grade is derived even when one was supplied
FinishRegrade(result, overall, overall_max) ==
    LET pct == PctOf(overall, overall_max)
        r1 == DictSet(result, K_letter_grade, StrV(<<_default_letter_grade(pct)>>))
    IN Return(DictSet(r1, K_percent, Num(Round1(pct))))

\* lines 179-188, with the totals already settled
Finish(result, overall, overall_max) ==
    LET pct == PctOf(overall, overall_max)
        r1 == IF ~Truthy(DictGet(result, K_letter_grade, None))
              THEN DictSet(result, K_letter_grade, StrV(<<_default_letter_grade(pct)>>))
              ELSE result
    IN Return(DictSet(r1, K_percent, Num(Round1(pct))))

_postprocess(result) ==
    IF result.t # "dict" THEN Raise("AttributeError")        \* result.get
    ELSE
    LET overall == DictGet(result, K_overall_score, None)
        overall_max == DictGet(result, K_overall_max, None)
    IN IF overall = None \/ overall_max = None
       THEN LET rb == DictGet(result, K_rubric_breakdown, ListV(<<>>)) IN
            IF ~Iterable(rb) THEN Raise("TypeError")          \* for item in ...
            ELSE LET sums == SumItems([total |-> 0, total_max |-> 0], Items(rb))
                     o2 == IF overall # None THEN overall ELSE Num(sums.total)
                     m2 == IF overall_max # None THEN overall_max ELSE Num(sums.total_max)
                     r1 == DictSet(DictSet(result, K_overall_score, o2), K_overall_max, m2)
                 IN Finish(r1, o2, m2)
       ELSE Finish(result, overall, overall_max)

(***************************************************************************)
(* _strictness_instructions: the instruction fragment chosen for a level,  *)
(* which is None or a string.                                              *)
(***************************************************************************)
\* a slip: only the first word of the level is compared
StrictnessFirstWord(level) ==
    LET l0 == IF Truthy(level) THEN level.s ELSE <<"medium">>
        l1 == Strip(Lower(l0))
    IN IF l1 # <<>> /\ l1[1] = "easy" THEN "easy"
       ELSE IF l1 # <<>> /\ l1[1] = "hard" THEN "hard"
       ELSE "balanced"

_strictness_instructions(level) ==
    LET l0 == IF Truthy(level) THEN level.s ELSE <<"medium">>
        l1 == Strip(Lower(l0))
    IN IF l1 = <<"easy">> THEN "easy"
       ELSE IF l1 = <<"hard">> THEN "hard"
       ELSE "balanced"

(***************************************************************************)
(* The fallback object of grade_work, lines 201-214.                       *)
(***************************************************************************)
Advisory1 == StrV(<<"The model response was not valid JSON.">>)
Advisory2 == StrV(<<"Grading could not be parsed, so only the raw output is shown.">>)

FallbackWith(comment) ==
    DictV((<<"assumptions">> :> ListV(<<Advisory1, Advisory2>>))
       @@ (K_rubric_breakdown :> ListV(<<>>))
       @@ (K_overall_score :> Num(0))
       @@ (K_overall_max :> Num(0))
       @@ (K_letter_grade :> StrV(<<"N/A">>))
       @@ (<<"strengths">> :> ListV(<<>>))
       @@ (<<"top_fixes">> :> ListV(<<>>))
       @@ (<<"rewrite_suggestions">> :> ListV(<<>>))
       @@ (<<"final_comment">> :> StrV(comment)))

\* a slip: final_comment keeps the whitespace around the raw text
FallbackUntrimmed(raw_text) == FallbackWith(raw_text)

\* "final_comment": raw.strip()
Fallback(raw_text) == FallbackWith(Strip(raw_text))

\* lines 197-214: the parsed value, or the fallback object when parsing raises
ParsedOrFallback(raw_text) ==
    LET p == _safe_json_parse(raw_text) IN
    IF p.ok THEN p.v ELSE Fallback(raw_text)

(***************************************************************************)
(* The explored inputs: texts the model service can return, written the    *)
(* way a JSON document is written, and strictness values of a request.     *)
(***************************************************************************)
Str(w) == <<Q>> \o w \o <<Q>>
NumText(n) == <<NumLiteral(n)>>
Member(k, vtext) == Str(k) \o <<":">> \o vtext

RECURSIVE JoinComma(_)
JoinComma(texts) ==
    IF texts = <<>> THEN <<>>
    ELSE IF Len(texts) = 1 THEN texts[1]
    ELSE texts[1] \o <<",">> \o JoinComma(Tail(texts))

ObjText(members) == <<"{">> \o JoinComma(members) \o <<"}">>
ArrText(items) == <<"[">> \o JoinComma(items) \o <<"]">>

\* no member, or the member k with one of the value texts
Optional(k, vtexts) == {<<>>} \cup {<<Member(k, v)>> : v \in vtexts}

RECURSIVE Repeat(_, _)
Repeat(c, n) == IF n = 0 THEN <<>> ELSE <<c>> \o Repeat(c, n - 1)

Pads(c) == {Repeat(c, n) : n \in 0..MaxPad}

RECURSIVE SeqsUpTo(_, _)
SeqsUpTo(S, n) ==
    IF n = 0 THEN {<<>>}
    ELSE SeqsUpTo(S, n - 1)
         \cup {Append(q, x) : q \in {r \in SeqsUpTo(S, n - 1) : Len(r) = n - 1}, x \in S}

\* objects whose totals and letter grade are supplied, null, malformed or absent
ScoreTexts ==
    {NumText(n) : n \in {-50, 0, 150, 200, 320, 599, 600, 969, 970}}
    \cup {<<"null">>, Str(<<"abc">>), Str(<<"15">>)}
MaxTexts ==
    {NumText(n) : n \in {-50, 0, 200, 230, 330, 1000}} \cup {<<"null">>, Str(<<"abc">>)}
LetterTexts == {Str(<<>>), Str(<<"B">>), <<"null">>}
OneEntry == ArrText(<<ObjText(<<Member(K_score, NumText(80)), Member(K_max_score, NumText(100))>>)>>)

TotalsTexts ==
    {ObjText(a \o b \o c \o d) :
        a \in Optional(K_overall_score, ScoreTexts),
        b \in Optional(K_overall_max, MaxTexts),
        c \in Optional(K_letter_grade, LetterTexts),
        d \in Optional(K_rubric_breakdown, {OneEntry})}

\* objects whose rubric_breakdown varies
EntryTexts ==
    { ObjText(<<Member(K_score, NumText(80)), Member(K_max_score, NumText(100))>>),
      ObjText(<<Member(K_score, NumText(50)), Member(K_max_score, Str(<<"abc">>))>>),
      ObjText(<<Member(K_score, Str(<<"abc">>)), Member(K_max_score, NumText(100))>>),
      ObjText(<<>>),
      ObjText(<<Member(K_score, NumText(80))>>),
      ObjText(<<Member(K_score, <<"null">>), Member(K_max_score, NumText(100))>>),
      ObjText(<<Member(K_score, Str(<<"5">>)), Member(K_max_score, NumText(200))>>),
      NumText(50) }

RubricTexts ==
    {ArrText(es) : es \in SeqsUpTo(EntryTexts, MaxItems)}
    \cup {<<"null">>, NumText(50), Str(<<"abc">>), ObjText(<<Member(K_score, NumText(80))>>)}

HeaderMembers ==
    { <<>>,
      <<Member(K_overall_score, NumText(150))>>,
      <<Member(K_overall_max, NumText(200))>>,
      <<Member(K_overall_score, <<"null">>), Member(K_letter_grade, Str(<<"B">>))>> }

BreakdownTexts ==
    {ObjText(h \o <<Member(K_rubric_breakdown, r)>>) : h \in HeaderMembers, r \in RubricTexts}

\* documents and non-documents, bare or inside a fenced block
Example ==
    ObjText(<<Member(K_overall_score, NumText(150)), Member(K_overall_max, NumText(200)),
              Member(K_rubric_breakdown, ArrText(<<>>))>>)
JsonBodies ==
    { Example,
      ObjText(<<Member(<<"final_comment">>, Str(<<"a", LS, "b">>))>>),
      <<"{", NL, SP>> \o Member(K_overall_max, NumText(200)) \o <<NL, "}">>,
      ObjText(<<Member(<<"final_comment">>, Str(<<"json">>))>>),
      ArrText(<<>>),
      NumText(50),
      <<"null">>,
      <<"true">>,
      Str(<<"abc">>) }
NonJsonBodies ==
    { <<"Sorry", SP, "no", SP, "grade">>,
      <<>>,
      <<"{">>,
      Example \o <<SP, "thanks">>,
      ObjText(<<Member(<<"final_comment">>, Str(<<"a", NL, "b">>))>>),
      <<"json">> }

Fence == <<BT, BT, BT>>
TagLines == {<<"json">>, <<"JSON">>, <<"javascript">>, <<"JavaScript", SP>>}

\* a fenced block whose first line is a bare language tag
FencedWithTag(tag, body) == Fence \o tag \o <<NL>> \o body \o <<NL>> \o Fence
\* a fenced block with no tag line: the body starts after the fence's line end,
\* or right after the fence
FencedNoTag(body) == Fence \o <<NL>> \o body \o <<NL>> \o Fence
FencedInline(body) == Fence \o body \o Fence

Wrapped(body) ==
    {body, FencedNoTag(body), FencedInline(body),
     FencedWithTag(<<"python">>, body),
     Fence \o <<"json", NL>> \o body}
    \cup {FencedWithTag(tag, body) : tag \in TagLines}

FencedTexts ==
    {l \o w \o r : l \in Pads(SP), r \in Pads(NL),
                   w \in UNION {Wrapped(b) : b \in JsonBodies \cup NonJsonBodies}}

RawTexts == TotalsTexts \cup BreakdownTexts \cup FencedTexts

\* strictness values
StrictnessWords ==
    { <<>>, <<"easy">>, <<"EASY">>, <<"Easy">>, <<"hard">>, <<"HARD">>, <<"Hard">>,
      <<"medium">>, <<"MEDIUM">>, <<"harder">>, <<"Harder">>, <<"strict">>,
      <<"easy", SP, "hard">>, <<"har", SP, "d">> }
StrictnessInputs ==
    {None} \cup {StrV(l \o w \o r) : l \in Pads(SP), r \in Pads(SP), w \in StrictnessWords}
RequestStrictness == {None, StrV(<<"medium">>), StrV(<<SP, "HARD">>)}

(***************************************************************************)
(* grade_work as a state machine.  One request is served: the prompt is    *)
(* built, the model service is called once, the answer is parsed (or the   *)
(* fallback object takes its place) and _postprocess completes it.         *)
(***************************************************************************)
VARIABLES
    pc,         \* "start", "call", "parse", "post", "done" or "raised"
    strictness, \* req.strictness
    system,     \* the instruction fragment in the system prompt, "" before it is built
    calls,      \* POST requests sent to the model service
    raw,        \* the text the model service returned
    parsed,     \* the value handed to _postprocess
    result,     \* the value grade_work returns
    error       \* the exception grade_work ends with, "" if none

vars == <<pc, strictness, system, calls, raw, parsed, result, error>>

Unset == [t |-> "unset"]

\* what _call_ollama raises: client.post, raise_for_status, data["message"]["content"]
InvocationErrors == {"ConnectError", "ReadTimeout", "HTTPStatusError", "KeyError"}

InitWith(levels) ==
    /\ pc = "start"
    /\ strictness \in levels
    /\ system = ""
    /\ calls = 0
    /\ raw = <<>>
    /\ parsed = Unset
    /\ result = Unset
    /\ error = ""

Init == InitWith(RequestStrictness)

\* line 192-193
BuildPrompt ==
    /\ pc = "start"
    /\ system' = _strictness_instructions(strictness)
    /\ pc' = "call"
    /\ UNCHANGED <<strictness, calls, raw, parsed, result, error>>

\* line 195, the call returns the assistant message's text
CallReturns ==
    /\ pc = "call"
    /\ calls' = calls + 1
    /\ \E text \in RawTexts : raw' = text
    /\ pc' = "parse"
    /\ UNCHANGED <<strictness, system, parsed, result, error>>

\* a slip: a failed call is tried once more
CallRaisesRetried ==
    /\ pc = "call"
    /\ calls < 2
    /\ calls' = calls + 1
    /\ \E e \in InvocationErrors : error' = e
    /\ pc' = IF calls = 0 THEN "call" ELSE "raised"
    /\ UNCHANGED <<strictness, system, raw, parsed, result>>

\* line 195, the call raises and grade_work ends with its exception
CallRaises ==
    /\ pc = "call"
    /\ calls' = calls + 1
    /\ \E e \in InvocationErrors : error' = e
    /\ pc' = "raised"
    /\ UNCHANGED <<strictness, system, raw, parsed, result>>

\* lines 197-214
Parse ==
    /\ pc = "parse"
    /\ parsed' = ParsedOrFallback(raw)
    /\ pc' = "post"
    /\ UNCHANGED <<strictness, system, calls, raw, result, error>>

\* line 216, _postprocess returns
PostprocessReturns ==
    /\ pc = "post"
    /\ _postprocess(parsed).ok
    /\ result' = _postprocess(parsed).v
    /\ pc' = "done"
    /\ UNCHANGED <<strictness, system, calls, raw, parsed, error>>

\* line 216, _postprocess raises
PostprocessRaises ==
    /\ pc = "post"
    /\ ~_postprocess(parsed).ok
    /\ error' = _postprocess(parsed).exc
    /\ pc' = "raised"
    /\ UNCHANGED <<strictness, system, calls, raw, parsed, result>>

Next ==
    \/ BuildPrompt
    \/ CallReturns
    \/ CallRaises
    \/ Parse
    \/ PostprocessReturns
    \/ PostprocessRaises

Spec == Init /\ [][Next]_vars

\* the prompt builder alone, over a wider set of strictness values
InitPrompt == InitWith(StrictnessInputs)
NextPrompt == BuildPrompt
SpecPrompt == InitPrompt /\ [][NextPrompt]_vars

(***************************************************************************)
(* Properties.                                                             *)
(***************************************************************************)
Abs(x) == IF x < 0 THEN -x ELSE x

\* the model service answered and grade_work has ended
Returned == pc = "done"
AnsweredAndEnded == parsed # Unset /\ pc \in {"done", "raised"}

\* the text cannot be parsed as JSON after fence stripping
Unparseable(text) == ~_safe_json_parse(text).ok

\* t is text with the whitespace at both ends removed
IsTrimOf(t, text) ==
    /\ t = <<>> \/ (t[1] \notin PyWhitespace /\ t[Len(t)] \notin PyWhitespace)
    /\ \E i \in 1..(Len(text) + 1) :
          /\ i + Len(t) - 1 <= Len(text)
          /\ t = SubSeq(text, i, i + Len(t) - 1)
          /\ \A j \in 1..Len(text) :
                (j < i \/ j > i + Len(t) - 1) => text[j] \in PyWhitespace

Field(d, k) == d.f[k]
Has(d, k) == k \in DOMAIN d.f
\* the key is absent or holds null
Lacks(d, k) == ~Has(d, k) \/ Field(d, k) = None

\* C1: once the model service has answered, grade_work returns a result
\* and never ends with an exception, whatever the shape of the answer.
C1_NormalizationTotal == AnsweredAndEnded => pc = "done"

\* C2: for a text that cannot be parsed as JSON, grade_work returns the
\* fallback object: totals 0 of 0, grade N/A, percent 0.0, empty lists, the
\* two advisory strings, and the trimmed text as final_comment.
C2_FallbackObject ==
    (AnsweredAndEnded /\ Unparseable(raw)) =>
        /\ pc = "done"
        /\ result.t = "dict"
        /\ DOMAIN result.f =
              {<<"assumptions">>, K_rubric_breakdown, K_overall_score, K_overall_max,
               K_letter_grade, <<"strengths">>, <<"top_fixes">>,
               <<"rewrite_suggestions">>, <<"final_comment">>, K_percent}
        /\ Field(result, K_overall_score) = Num(0)
        /\ Field(result, K_overall_max) = Num(0)
        /\ Field(result, K_letter_grade) = StrV(<<"N/A">>)
        /\ Field(result, K_percent) = Num(0)
        /\ Field(result, K_rubric_breakdown) = ListV(<<>>)
        /\ Field(result, <<"strengths">>) = ListV(<<>>)
        /\ Field(result, <<"top_fixes">>) = ListV(<<>>)
        /\ Field(result, <<"rewrite_suggestions">>) = ListV(<<>>)
        /\ Field(result, <<"assumptions">>) =
              ListV(<<StrV(<<"The model response was not valid JSON.">>),
                      StrV(<<"Grading could not be parsed, so only the raw output is shown.">>)>>)
        /\ Field(result, <<"final_comment">>).t = "str"
        /\ IsTrimOf(Field(result, <<"final_comment">>).s, raw)

C2_Witness ==
    /\ Returned
    /\ Unparseable(raw)
    /\ Len(raw) > 2
    /\ raw[1] = SP
    /\ raw[Len(raw)] = NL

\* p (in tenths) is 100 * s / m rounded to one decimal place
IsPercentOf(p, s, m) == 2 * Abs(1000 * s - p * m) <= m

PlainEntries(items) ==
    \A i \in 1..Len(items) :
        /\ items[i].t = "dict"
        /\ DictGet(items[i], K_score, Num(0)).t = "num"
        /\ DictGet(items[i], K_max_score, Num(100)).t = "num"

\* the sum of a field over the entries, an entry without it counting default
RECURSIVE SumField(_, _, _)
SumField(items, k, default) ==
    IF items = <<>> THEN 0
    ELSE DictGet(Head(items), k, Num(default)).n + SumField(Tail(items), k, default)

\* the parsed object lacks a total and its rubric_breakdown is a list of plain entries
LacksATotal ==
    /\ Returned
    /\ parsed.t = "dict"
    /\ Lacks(parsed, K_overall_score) \/ Lacks(parsed, K_overall_max)
    /\ DictGet(parsed, K_rubric_breakdown, ListV(<<>>)).t = "list"
    /\ PlainEntries(DictGet(parsed, K_rubric_breakdown, ListV(<<>>)).items)

RubricItems == DictGet(parsed, K_rubric_breakdown, ListV(<<>>)).items

\* C4 as stated: when either total is lacking, both totals of the result are
\* the sums over rubric_breakdown (score default 0, max_score default 10).
C4_BothTotalsAsStated ==
    LacksATotal =>
        /\ Field(result, K_overall_score) = Num(SumField(RubricItems, K_score, 0))
        /\ Field(result, K_overall_max) = Num(SumField(RubricItems, K_max_score, 100))

\* C4 amended: each total that is lacking (absent or null) is the sum over
\* rubric_breakdown, and a total that was supplied is kept as supplied.
C4_MissingTotals ==
    LacksATotal =>
        /\ Field(result, K_overall_score) =
              IF Lacks(parsed, K_overall_score)
              THEN Num(SumField(RubricItems, K_score, 0))
              ELSE Field(parsed, K_overall_score)
        /\ Field(result, K_overall_max) =
              IF Lacks(parsed, K_overall_max)
              THEN Num(SumField(RubricItems, K_max_score, 100))
              ELSE Field(parsed, K_overall_max)

\* only overall_max is lacking; two entries, one without max_score
C4_Witness ==
    /\ LacksATotal
    /\ ~Lacks(parsed, K_overall_score)
    /\ Len(RubricItems) = 2
    /\ \E i \in 1..2 : ~Has(RubricItems[i], K_max_score) /\ Has(RubricItems[i], K_score)
    /\ Field(result, K_overall_max) = Num(200)

\* the grade the threshold table gives to a percent in tenths
TableGrade(p) ==
    IF p >= 970 THEN "A+"
    ELSE IF p >= 930 THEN "A"
    ELSE IF p >= 900 THEN "A-"
    ELSE IF p >= 870 THEN "B+"
    ELSE IF p >= 830 THEN "B"
    ELSE IF p >= 800 THEN "B-"
    ELSE IF p >= 770 THEN "C+"
    ELSE IF p >= 730 THEN "C"
    ELSE IF p >= 700 THEN "C-"
    ELSE IF p >= 670 THEN "D+"
    ELSE IF p >= 630 THEN "D"
    ELSE IF p >= 600 THEN "D-"
    ELSE "F"

\* C5: when letter_grade is absent or empty, the result's letter_grade is the
\* grade the threshold table gives to the result's percent field.
C5_GradeFromPercentField ==
    (/\ Returned
     /\ parsed.t = "dict"
     /\ ~Has(parsed, K_letter_grade) \/ Field(parsed, K_letter_grade) = StrV(<<>>))
    => Field(result, K_letter_grade) = StrV(<<TableGrade(Field(result, K_percent).n)>>)

\* C6 as stated: an object that contains overall_score, overall_max and
\* letter_grade comes back unchanged apart from percent.
C6_FrameAsStated ==
    (/\ Returned
     /\ parsed.t = "dict"
     /\ Has(parsed, K_overall_score) /\ Has(parsed, K_overall_max)
     /\ Has(parsed, K_letter_grade))
    => /\ DOMAIN result.f = DOMAIN parsed.f \cup {K_percent}
       /\ \A k \in DOMAIN parsed.f \ {K_percent} : Field(result, k) = Field(parsed, k)

\* C6 amended: an object with non-null overall_score and overall_max and a
\* non-empty letter_grade comes back unchanged apart from percent.
C6_Frame ==
    (/\ Returned
     /\ parsed.t = "dict"
     /\ ~Lacks(parsed, K_overall_score) /\ ~Lacks(parsed, K_overall_max)
     /\ Has(parsed, K_letter_grade) /\ Truthy(Field(parsed, K_letter_grade)))
    => /\ DOMAIN result.f = DOMAIN parsed.f \cup {K_percent}
       /\ \A k \in DOMAIN parsed.f \ {K_percent} : Field(result, k) = Field(parsed, k)

\* the three fields supplied, rubric_breakdown absent and still absent
C6_Witness ==
    /\ Returned
    /\ parsed.t = "dict"
    /\ Field(result, K_overall_score) = Num(150)
    /\ Field(result, K_overall_max) = Num(200)
    /\ Has(parsed, K_letter_grade) /\ Field(result, K_letter_grade) = StrV(<<"B">>)
    /\ ~Has(parsed, K_rubric_breakdown)
    /\ ~Has(result, K_rubric_breakdown)
    /\ Field(result, K_percent) = Num(750)

\* C7: one outbound call per request; a failed call is not retried and not
\* normalized: grade_work ends with the call's error and returns nothing.
C7_FailedCallEndsRequest ==
    /\ calls <= 1
    /\ pc \notin {"start", "call"} => calls = 1
    /\ error \in InvocationErrors =>
          /\ pc = "raised"
          /\ calls = 1
          /\ parsed = Unset
          /\ result = Unset

C7_Witness == pc = "raised" /\ error = "ReadTimeout" /\ calls = 1

\* the level equals the word when letter case is ignored
SameIgnoringCase(level, word) == level.t = "str" /\ Lower(level.s) = <<word>>
\* the level equals the word when letter case and surrounding whitespace are ignored
SameTrimmedIgnoringCase(level, word) ==
    /\ level.t = "str"
    /\ \E t \in {SubSeq(level.s, i, j) : i \in 1..(Len(level.s) + 1), j \in 0..Len(level.s)} :
          IsTrimOf(t, level.s) /\ Lower(t) = <<word>>

Fragments == {"easy", "hard", "balanced"}

\* C8 as stated: every strictness value selects one of the three fragments,
\* and every value that differs from easy and hard when case is ignored
\* selects the balanced one.
C8_DefaultAsStated ==
    pc = "call" =>
        /\ system \in Fragments
        /\ (~SameIgnoringCase(strictness, "easy") /\ ~SameIgnoringCase(strictness, "hard"))
              => system = "balanced"

\* C8 amended: every strictness value selects one of the three fragments, and
\* every value that differs from easy and hard when case and surrounding
\* whitespace are ignored selects the balanced one.
C8_Default ==
    pc = "call" =>
        /\ system \in Fragments
        /\ (/\ ~SameTrimmedIgnoringCase(strictness, "easy")
            /\ ~SameTrimmedIgnoringCase(strictness, "hard"))
              => system = "balanced"

\* an unrecognized value with whitespace around it
C8_Witness ==
    /\ pc = "call"
    /\ strictness = StrV(<<SP, "easy", SP, "hard">>)
    /\ system = "balanced"

\* both conversions of the entry succeed
Convertible(e) ==
    /\ e.t = "dict"
    /\ ToFloat(DictGet(e, K_score, Num(0))).ok
    /\ ToFloat(DictGet(e, K_max_score, Num(100))).ok

\* the sum of a field over the convertible entries, the others counting zero
RECURSIVE SumConvertible(_, _, _)
SumConvertible(items, k, default) ==
    IF items = <<>> THEN 0
    ELSE (IF Convertible(Head(items))
          THEN ToFloat(DictGet(Head(items), k, Num(default))).n
          ELSE 0)
         + SumConvertible(Tail(items), k, default)

\* C9: an entry whose score or max_score cannot be converted adds nothing to
\* either sum, and the other entries are summed.
C9_EntrySkippedWhole ==
    (/\ Returned
     /\ parsed.t = "dict"
     /\ Lacks(parsed, K_overall_score) /\ Lacks(parsed, K_overall_max)
     /\ DictGet(parsed, K_rubric_breakdown, ListV(<<>>)).t = "list")
    => /\ Field(result, K_overall_score) = Num(SumConvertible(RubricItems, K_score, 0))
       /\ Field(result, K_overall_max) = Num(SumConvertible(RubricItems, K_max_score, 100))

\* C10: a JSON text inside a fenced block, with a json or javascript tag line
\* or with no tag line, parses to the value the text parses to by itself.
C10_FenceEquivalence ==
    pc = "post" =>
        \A body \in JsonBodies :
            (\/ raw = FencedNoTag(body)
             \/ \E tag \in TagLines : raw = FencedWithTag(tag, body))
            => parsed = JsonLoads(body).v

=============================================================================
